---- MODULE Spec2Model ----
(***************************************************************************)
(* Model of the Tecton HTTP client: the typed-value boundary of            *)
(* tecton_client/responses.py (Value, FeatureValue, SloInformation,        *)
(* AbstractTectonResponse, GetFeaturesResponse), the request classes the   *)
(* tests build, and the two TectonHttpClient classes.                      *)
(*                                                                         *)
(* Python values are tagged records [tag, v]:                              *)
(*   None   [tag |-> "null",  v |-> <<>>]                                  *)
(*   bool   [tag |-> "bool",  v |-> TRUE]                                  *)
(*   int    [tag |-> "int",   v |-> 1]                                     *)
(*   float  [tag |-> "float", v |-> 15]      tenths: 15 is 1.5             *)
(*   str    [tag |-> "str",   v |-> <<"a", ".", "b">>]  one entry per char *)
(*   list   [tag |-> "list",  v |-> <<x1, ..., xn>>]                       *)
(*   dict   [tag |-> "dict",  v |-> <<<<k1, x1>>, ...>>] insertion order   *)
(*   str    [tag |-> "text",  v |-> "PRESENT"]  a str whose characters are *)
(*                              never looked at (status, timestamp)        *)
(* The dicts of the response metadata are records; an optional key is a    *)
(* field the record may lack.                                              *)
(* A call's outcome is a record [ok, exc, msg, val]: either the returned   *)
(* object, or the class and message of the exception that left the call.   *)
(* client is the TectonHttpClient under use, tasks the coroutines running  *)
(* close() and execute_request() on it.                                    *)
(***************************************************************************)
EXTENDS Integers, Sequences, FiniteSets, TLC

VARIABLES call, args, outcome, client, tasks

vars == <<call, args, outcome, client, tasks>>

(***************************************************************************)
(* Bounds of the input universes.                                          *)
(***************************************************************************)
MaxLen == 2
MaxNest == 2
MaxFields == 2
MaxNameLen == 3
MaxFeatures == 2
MaxUrlLen == 5
MaxTasks == 2

(***************************************************************************)
(* Python values.                                                          *)
(***************************************************************************)
Null == [tag |-> "null", v |-> <<>>]
BoolV(b) == [tag |-> "bool", v |-> b]
IntV(n) == [tag |-> "int", v |-> n]
FloatV(t) == [tag |-> "float", v |-> t]
StrV(cs) == [tag |-> "str", v |-> cs]
ListV(xs) == [tag |-> "list", v |-> xs]
DictV(kvs) == [tag |-> "dict", v |-> kvs]
Text(s) == [tag |-> "text", v |-> s]

IsNone(x) == "tag" \in DOMAIN x /\ x.tag = "null"

\* d.get(k)
Get(d, k) == IF k \in DOMAIN d THEN d[k] ELSE Null

\* The truth value of an optional str argument.
Truthy(x) == ~IsNone(x) /\ x.v # ""

NoObject == [tag |-> "none"]

Ok(x) == [ok |-> TRUE, exc |-> "", msg |-> "", val |-> x]
Raise(cls, m) == [ok |-> FALSE, exc |-> cls, msg |-> m, val |-> NoObject]

SeqsUpTo(S, n) == UNION {[1..k -> S] : k \in 0..n}

(***************************************************************************)
(* Python built-ins used by the conversions.                               *)
(***************************************************************************)
DigitChars == <<"0", "1", "2", "3", "4", "5", "6", "7", "8", "9">>

IsDigit(c) == \E d \in 1..10 : DigitChars[d] = c

DigitVal(c) == (CHOOSE d \in 1..10 : DigitChars[d] = c) - 1

RECURSIVE DigitsVal(_)
DigitsVal(cs) ==
    IF cs = <<>> THEN 0
    ELSE 10 * DigitsVal(SubSeq(cs, 1, Len(cs) - 1)) + DigitVal(cs[Len(cs)])

AllDigits(cs) == \A i \in 1..Len(cs) : IsDigit(cs[i])

DotPositions(cs) == {i \in 1..Len(cs) : cs[i] = "."}

\* int(x): a decimal string parses, a float truncates towards zero, a bool
\* is 0 or 1; anything else raises.  (The strings of the model hold digits,
\* letters and "." only: no sign, blank or underscore.)
PyInt(x) ==
    CASE x.tag = "int" -> Ok(x)
      [] x.tag = "bool" -> Ok(IntV(IF x.v THEN 1 ELSE 0))
      [] x.tag = "float" ->
            Ok(IntV(IF x.v >= 0 THEN x.v \div 10 ELSE -((-x.v) \div 10)))
      [] x.tag = "str" ->
            IF Len(x.v) > 0 /\ AllDigits(x.v)
            THEN Ok(IntV(DigitsVal(x.v)))
            ELSE Raise("ValueError", "invalid literal for int()")
      [] OTHER -> Raise("TypeError", "int() argument")

\* float(x): digits with at most one "." and at least one digit parse; the
\* model keeps tenths, so its strings carry at most one fractional digit.
PyFloat(x) ==
    CASE x.tag = "float" -> Ok(x)
      [] x.tag = "int" -> Ok(FloatV(10 * x.v))
      [] x.tag = "bool" -> Ok(FloatV(IF x.v THEN 10 ELSE 0))
      [] x.tag = "str" ->
            LET cs == x.v
                dots == DotPositions(cs)
            IN  IF dots = {} THEN
                    IF Len(cs) > 0 /\ AllDigits(cs)
                    THEN Ok(FloatV(10 * DigitsVal(cs)))
                    ELSE Raise("ValueError", "could not convert string to float")
                ELSE IF Cardinality(dots) = 1 THEN
                    LET d == CHOOSE i \in dots : TRUE
                        whole == SubSeq(cs, 1, d - 1)
                        frac == SubSeq(cs, d + 1, Len(cs))
                    IN  IF Len(cs) > 1 /\ AllDigits(whole) /\ AllDigits(frac)
                           /\ Len(frac) <= 1
                        THEN Ok(FloatV(10 * DigitsVal(whole) + DigitsVal(frac)))
                        ELSE Raise("ValueError", "could not convert string to float")
                ELSE Raise("ValueError", "could not convert string to float")
      [] OTHER -> Raise("TypeError", "float() argument")

\* bool(x): truthiness; never raises.
PyBool(x) ==
    CASE x.tag = "null" -> Ok(BoolV(FALSE))
      [] x.tag = "bool" -> Ok(x)
      [] x.tag \in {"int", "float"} -> Ok(BoolV(x.v # 0))
      [] OTHER -> Ok(BoolV(Len(x.v) > 0))

\* iter(x): a list yields its items, a str its characters, a dict its keys.
PyIter(x) ==
    CASE x.tag = "list" -> Ok(x.v)
      [] x.tag = "str" -> Ok([i \in 1..Len(x.v) |-> StrV(<<x.v[i]>>)])
      [] x.tag = "dict" -> Ok([i \in 1..Len(x.v) |-> x.v[i][1]])
      [] OTHER -> Raise("TypeError", "object is not iterable")

\* x[i] for a 0-based int i >= 0.
PyIndex(x, i) ==
    CASE x.tag = "list" ->
            IF i < Len(x.v) THEN Ok(x.v[i + 1])
            ELSE Raise("IndexError", "list index out of range")
      [] x.tag = "str" ->
            IF i < Len(x.v) THEN Ok(StrV(<<x.v[i + 1]>>))
            ELSE Raise("IndexError", "string index out of range")
      [] x.tag = "dict" -> Raise("KeyError", "int key")
      [] OTHER -> Raise("TypeError", "object is not subscriptable")

\* d[k] = x on an insertion-ordered dict: a present key keeps its place.
DictSet(kvs, k, x) ==
    IF \E i \in 1..Len(kvs) : kvs[i][1] = k
    THEN [i \in 1..Len(kvs) |-> IF kvs[i][1] = k THEN <<k, x>> ELSE kvs[i]]
    ELSE Append(kvs, <<k, x>>)

\* s.split("."): the pieces between the separators, empty pieces kept.
RECURSIVE Split(_, _)
Split(cs, sep) ==
    LET hits == {i \in 1..Len(cs) : cs[i] = sep}
    IN  IF hits = {} THEN <<cs>>
        ELSE LET h == CHOOSE i \in hits : \A j \in hits : i <= j
             IN  <<SubSeq(cs, 1, h - 1)>>
                     \o Split(SubSeq(cs, h + 1, Len(cs)), sep)

(***************************************************************************)
(* DataType model (tecton_client/data_types.py): the closed set of type    *)
(* descriptors, and their construction from the wire descriptor.           *)
(***************************************************************************)
IntType == [kind |-> "IntType"]
FloatType == [kind |-> "FloatType"]
StringType == [kind |-> "StringType"]
BoolType == [kind |-> "BoolType"]
ArrayType(element_type) == [kind |-> "ArrayType", element_type |-> element_type]
StructField(name, data_type) == [name |-> name, data_type |-> data_type]
StructType(fields) == [kind |-> "StructType", fields |-> fields]

\* get_data_type(data_type, element_type, fields): the DataType of a wire
\* descriptor; an unsupported type name, or "array"/"struct" without its
\* nested descriptor(s), fails the whole construction.
RECURSIVE get_data_type(_, _, _)
RECURSIVE get_fields(_, _)
get_fields(fields, built) ==
    IF Len(built) = Len(fields) THEN Ok(StructType(built))
    ELSE LET f == fields[Len(built) + 1]
         IN  IF ~({"name", "dataType"} \subseteq DOMAIN f)
                \/ "type" \notin DOMAIN f.dataType
             THEN Raise("TectonClientError", "UnsupportedType")
             ELSE LET t == get_data_type(f.dataType.type,
                                         Get(f.dataType, "elementType"),
                                         Get(f.dataType, "fields"))
                  IN  IF ~t.ok THEN t
                      ELSE get_fields(fields, Append(built, StructField(f.name, t.val)))

get_data_type(data_type, element_type, fields) ==
    CASE data_type = "int64" -> Ok(IntType)
      [] data_type = "float64" -> Ok(FloatType)
      [] data_type = "string" -> Ok(StringType)
      [] data_type = "boolean" -> Ok(BoolType)
      [] data_type = "array" ->
            IF IsNone(element_type) \/ "type" \notin DOMAIN element_type
            THEN Raise("TectonClientError", "UnsupportedType")
            ELSE LET e == get_data_type(element_type.type,
                                        Get(element_type, "elementType"),
                                        Get(element_type, "fields"))
                 IN  IF e.ok THEN Ok(ArrayType(e.val)) ELSE e
      [] data_type = "struct" ->
            IF IsNone(fields)
            THEN Raise("TectonClientError", "UnsupportedType")
            ELSE get_fields(fields.v, <<>>)
      [] OTHER -> Raise("TectonClientError", "UnsupportedType")

(***************************************************************************)
(* class Value                                                             *)
(***************************************************************************)
RECURSIVE ValueInit(_, _)

\* ArrayType: lambda x: [Value(data_type.element_type, value) for value in x]
ArrayConvertPartial(data_type, x) ==
    LET it == PyIter(x)
    IN  IF ~it.ok THEN it
        ELSE LET objs == [i \in 1..Len(it.val) |->
                              ValueInit(data_type.element_type, it.val[i])]
                 good == SelectSeq(objs, LAMBDA o : o.ok)
             IN  Ok(ListV([i \in 1..Len(good) |-> good[i].val]))

ArrayConvert(data_type, x) ==
    LET it == PyIter(x)
    IN  IF ~it.ok THEN it
        ELSE LET objs == [i \in 1..Len(it.val) |->
                              ValueInit(data_type.element_type, it.val[i])]
                 bad == {i \in 1..Len(objs) : ~objs[i].ok}
             IN  IF bad # {}
                 THEN objs[CHOOSE i \in bad : \A j \in bad : i <= j]
                 ELSE Ok(ListV([i \in 1..Len(objs) |-> objs[i].val]))

\* StructType: lambda x: {field.name: Value(field.data_type, x[i])
\*                        for i, field in enumerate(data_type.fields)}
\* StructFill continues the comprehension at the 0-based index i with the
\* dict built so far.
RECURSIVE StructFill(_, _, _, _)
StructFill(fields, x, i, kvs) ==
    IF i >= Len(fields) THEN Ok(DictV(kvs))
    ELSE LET field == fields[i + 1]
             item == PyIndex(x, i)
         IN  IF ~item.ok THEN item
             ELSE LET obj == ValueInit(field.data_type, item.val)
                  IN  IF ~obj.ok THEN obj
                      ELSE StructFill(fields, x, i + 1,
                                      DictSet(kvs, field.name, obj.val))

StructConvertSkipFirst(data_type, x) == StructFill(data_type.fields, x, 1, <<>>)

StructConvert(data_type, x) == StructFill(data_type.fields, x, 0, <<>>)

type_conversion_map ==
    {"IntType", "FloatType", "StringType", "BoolType", "ArrayType", "StructType"}

convert(data_type, x) ==
    CASE data_type.kind = "IntType" -> PyInt(x)
      [] data_type.kind = "FloatType" -> PyFloat(x)
      [] data_type.kind = "StringType" -> Ok(x)
      [] data_type.kind = "BoolType" -> PyBool(x)
      [] data_type.kind = "ArrayType" -> ArrayConvert(data_type, x)
      [] data_type.kind = "StructType" -> StructConvert(data_type, x)

\* None if feature_value is None else convert(feature_value)
StoredAlwaysConvert(data_type, feature_value) == convert(data_type, feature_value)

Stored(data_type, feature_value) ==
    IF feature_value.tag = "null" THEN Ok(Null)
    ELSE convert(data_type, feature_value)

\* Value.__init__: the object, or the TectonClientError it raises.
ValueInit(data_type, feature_value) ==
    IF data_type.kind \in type_conversion_map
    THEN LET r == Stored(data_type, feature_value)
         IN  IF r.ok
             THEN Ok([data_type |-> data_type, _value |-> r.val])
             ELSE Raise("TectonClientError", "parsing the feature value")
    ELSE Raise("TectonClientError", "unknown data type")

\* Value.value of a constructed object.
RECURSIVE ValueOf(_)
ValueOf(obj) ==
    IF obj._value.tag = "null" THEN Null
    ELSE IF obj.data_type.kind = "StructType"
    THEN DictV([i \in 1..Len(obj._value.v) |->
                   <<obj._value.v[i][1], ValueOf(obj._value.v[i][2])>>])
    ELSE IF obj.data_type.kind = "ArrayType"
    THEN ListV([i \in 1..Len(obj._value.v) |-> ValueOf(obj._value.v[i])])
    ELSE obj._value

(***************************************************************************)
(* class FeatureStatus, class FeatureValue                                 *)
(***************************************************************************)
FeatureStatusValues == {"PRESENT", "MISSING_DATA", "UNKNOWN"}

\* FeatureStatus(feature_status): the member with that value.
FeatureStatus(feature_status) ==
    IF feature_status.v \in FeatureStatusValues
    THEN Ok(feature_status)
    ELSE Raise("ValueError", "not a valid FeatureStatus")

\* datetime.fromisoformat on the timestamps of the model.
IsoTable ==
    [s \in {"2023-05-03T00:00:00"} |->
        [tag |-> "datetime", v |-> <<2023, 5, 3, 0, 0, 0>>]]

fromisoformat(effective_time) ==
    IF effective_time.v \in DOMAIN IsoTable
    THEN Ok(IsoTable[effective_time.v])
    ELSE Raise("ValueError", "Invalid isoformat string")

\* self.feature_namespace, self.feature_name = name.split(".")
UnpackNameLoose(name) ==
    IF name.tag # "str" THEN Raise("AttributeError", "split")
    ELSE LET parts == Split(name.v, ".")
         IN  IF Len(parts) >= 2
             THEN Ok(<<StrV(parts[1]), StrV(parts[2])>>)
             ELSE Raise("TectonClientError", "not in the expected format")

UnpackName(name) ==
    IF name.tag # "str" THEN Raise("AttributeError", "split")
    ELSE LET parts == Split(name.v, ".")
         IN  IF Len(parts) = 2
             THEN Ok(<<StrV(parts[1]), StrV(parts[2])>>)
             ELSE Raise("TectonClientError", "not in the expected format")

\* FeatureValue.__init__
FeatureValueInit(name, data_type, feature_value, effective_time, element_type, fields, feature_status) ==
    LET names == UnpackName(name)
        status == IF Truthy(feature_status)
                  THEN FeatureStatus(feature_status) ELSE Ok(Null)
        time == IF Truthy(effective_time)
                THEN fromisoformat(effective_time) ELSE Ok(Null)
        dt == get_data_type(data_type, element_type, fields)
        value == ValueInit(dt.val, feature_value)
    IN  IF ~names.ok THEN names
        ELSE IF ~status.ok THEN status
        ELSE IF ~time.ok THEN time
        ELSE IF ~dt.ok THEN dt
        ELSE IF ~value.ok THEN value
        ELSE Ok([feature_namespace |-> names.val[1],
                 feature_name |-> names.val[2],
                 feature_status |-> status.val,
                 effective_time |-> time.val,
                 data_type |-> dt.val,
                 feature_value |-> ValueOf(value.val)])

(***************************************************************************)
(* class SloInformation                                                    *)
(***************************************************************************)
SloAttributes ==
    <<<<"slo_eligible", "sloEligible">>,
      <<"server_time_seconds", "serverTimeSeconds">>,
      <<"slo_server_time_seconds", "sloServerTimeSeconds">>,
      <<"dynamoDB_response_size_bytes", "dynamodbResponseSizeBytes">>,
      <<"store_max_latency", "storeMaxLatency">>,
      <<"store_response_size_bytes", "storeResponseSizeBytes">>>>

\* SloInformation.__init__: vars(self), in assignment order.
SloInformationInit(slo_information) ==
    [i \in 1..Len(SloAttributes) |->
        <<SloAttributes[i][1], Get(slo_information, SloAttributes[i][2])>>]

\* SloInformation.to_dict
to_dict(self) == DictV(SelectSeq(self, LAMBDA kv : ~IsNone(kv[2])))

(***************************************************************************)
(* class AbstractTectonResponse, class GetFeaturesResponse                 *)
(***************************************************************************)
\* The names bound in the module: its imports and its classes.
ModuleNames ==
    {"ABC", "datetime", "Enum", "List", "Optional", "Self", "Union",
     "ArrayType", "BoolType", "DataType", "FloatType", "get_data_type",
     "IntType", "StringType", "StructType", "TectonClientError",
     "Value", "FeatureStatus", "FeatureValue", "SloInformation",
     "AbstractTectonResponse", "GetFeaturesResponse"}

\* raise cls(m): the lookup of a name the module does not bind is itself
\* the exception.
RaiseNamed(cls, m) ==
    IF cls \in ModuleNames THEN Raise(cls, m)
    ELSE Raise("NameError", cls)

\* The loop over feature_metadata, continued at the 1-based index i.
RECURSIVE ValidateMetadata(_, _)
ValidateMetadata(feature_metadata, i) ==
    IF i > Len(feature_metadata) THEN Ok(Null)
    ELSE LET metadata == feature_metadata[i]
         IN  IF "name" \notin DOMAIN metadata
             THEN RaiseNamed("TectonClientException", "MISSING_EXPECTED_METADATA name")
             ELSE IF "dataType" \notin DOMAIN metadata
                     \/ "type" \notin DOMAIN metadata.dataType
             THEN RaiseNamed("TectonClientException", "MISSING_EXPECTED_METADATA data type")
             ELSE ValidateMetadata(feature_metadata, i + 1)

\* AbstractTectonResponse._validate_response
validate_response(feature_vector, feature_metadata) ==
    IF Len(feature_vector) = 0
    THEN RaiseNamed("TectonClientException", "EMPTY_FEATURE_VECTOR")
    ELSE ValidateMetadata(feature_metadata, 1)

\* The signature of FeatureValue.__init__.
FeatureValueParams ==
    {"name", "data_type", "feature_value", "effective_time", "element_type",
     "fields", "feature_status"}

FeatureValueRequired == {"name", "data_type", "feature_value"}

\* FeatureValue(**kwargs): the keywords are bound to the parameters, then
\* __init__ runs.
NewFeatureValue(kwargs) ==
    IF ~(DOMAIN kwargs \subseteq FeatureValueParams)
    THEN Raise("TypeError", "unexpected keyword argument")
    ELSE IF ~(FeatureValueRequired \subseteq DOMAIN kwargs)
    THEN Raise("TypeError", "missing required positional argument")
    ELSE FeatureValueInit(kwargs.name, kwargs.data_type, kwargs.feature_value,
                          Get(kwargs, "effective_time"),
                          Get(kwargs, "element_type"),
                          Get(kwargs, "fields"),
                          Get(kwargs, "feature_status"))

\* The list comprehension of GetFeaturesResponse.__init__, continued at the
\* 0-based index i with the list built so far.
RECURSIVE BuildFeatureValues(_, _, _, _)
BuildFeatureValues(feature_vector, feature_metadata, i, built) ==
    IF i >= Len(feature_vector) THEN Ok(built)
    ELSE IF i >= Len(feature_metadata)
    THEN Raise("IndexError", "list index out of range")
    ELSE LET m == feature_metadata[i + 1]
             fv == NewFeatureValue(
                       [name |-> m.name,
                        value_type |-> m.dataType.type,
                        element_type |-> Get(m.dataType, "elementType"),
                        effective_time |-> Get(m, "effectiveTime"),
                        feature_status |-> Get(m, "status"),
                        fields |-> Get(m.dataType, "fields"),
                        feature_value |-> feature_vector[i + 1]])
         IN  IF ~fv.ok THEN fv
             ELSE BuildFeatureValues(feature_vector, feature_metadata, i + 1,
                                     Append(built, fv.val))

\* GetFeaturesResponse.__init__
GetFeaturesResponseInit(response) ==
    LET feature_vector == response.result.features
        feature_metadata == response.metadata.features
        valid == validate_response(feature_vector, feature_metadata)
        feature_values == BuildFeatureValues(feature_vector, feature_metadata,
                                             0, <<>>)
    IN  IF ~valid.ok THEN valid
        ELSE IF ~feature_values.ok THEN feature_values
        ELSE Ok([feature_values |-> feature_values.val,
                 slo_info |-> IF "sloInfo" \in DOMAIN response.metadata
                              THEN SloInformationInit(response.metadata.sloInfo)
                              ELSE Null])

\* f"{feature.feature_namespace}.{feature.feature_name}"
FullName(feature) ==
    StrV(feature.feature_namespace.v \o <<".">> \o feature.feature_name.v)

\* GetFeaturesResponse.get_feature_values_dict
RECURSIVE FeatureValuesDict(_, _)
FeatureValuesDict(feature_values, kvs) ==
    IF feature_values = <<>> THEN DictV(kvs)
    ELSE FeatureValuesDict(Tail(feature_values),
                           DictSet(kvs, FullName(Head(feature_values)),
                                   Head(feature_values).feature_value))

get_feature_values_dict(self) == FeatureValuesDict(self.feature_values, <<>>)

(***************************************************************************)
(* Input universes.                                                        *)
(***************************************************************************)
ScalarRaws ==
    {Null, BoolV(TRUE), IntV(0), IntV(1), FloatV(15), StrV(<<>>),
     StrV(<<"1">>), StrV(<<"a">>), StrV(<<"1", ".", "5">>), StrV(<<"1", "2">>)}

FlatRaws == ScalarRaws \cup {ListV(xs) : xs \in SeqsUpTo(ScalarRaws, MaxLen)}

InnerRaws ==
    {Null, IntV(1), ListV(<<IntV(1), StrV(<<"a">>)>>)}
        \cup {ListV(xs) : xs \in SeqsUpTo({Null, IntV(1)}, MaxLen)}

NestedRaws == {ListV(xs) : xs \in SeqsUpTo(InnerRaws, MaxNest)}

LeafTypes == {IntType, FloatType, StringType, BoolType}

\* An instance of a DataType class that is none of the six variants.
OtherType == [kind |-> "DataType"]

FieldChoices == {StructField(n, t) : n \in {"a", "b"}, t \in {IntType, StringType}}

FlatTypes ==
    LeafTypes \cup {OtherType}
        \cup {ArrayType(t) : t \in LeafTypes}
        \cup {StructType(fs) : fs \in SeqsUpTo(FieldChoices, MaxFields)}

NestedTypes ==
    {ArrayType(ArrayType(IntType)),
     ArrayType(StructType(<<StructField("a", IntType), StructField("b", StringType)>>)),
     StructType(<<StructField("a", IntType), StructField("b", ArrayType(IntType))>>),
     StructType(<<StructField("a", StructType(<<StructField("a", IntType)>>))>>)}

ValueCases == (FlatTypes \X FlatRaws) \cup (NestedTypes \X NestedRaws)

FeatureNames ==
    {Null} \cup {StrV(cs) : cs \in SeqsUpTo({"a", "."}, MaxNameLen)}

IntDesc == [type |-> "int64"]

\* <<data_type, element_type, fields>>
TypeDescs ==
    {<<"int64", Null, Null>>, <<"float64", Null, Null>>,
     <<"string", Null, Null>>, <<"boolean", Null, Null>>,
     <<"uint8", Null, Null>>,
     <<"array", IntDesc, Null>>, <<"array", Null, Null>>,
     <<"array", [type |-> "uint8"], Null>>,
     <<"array", [type |-> "array", elementType |-> [type |-> "string"]], Null>>,
     <<"struct", Null, ListV(<<[name |-> "a", dataType |-> IntDesc]>>)>>,
     <<"struct", Null, ListV(<<[name |-> "a", dataType |-> IntDesc],
                               [name |-> "b", dataType |-> [type |-> "string"]]>>)>>,
     <<"struct", Null, Null>>}

FeatureRaws ==
    {Null, StrV(<<"1">>), StrV(<<"a">>), FloatV(15),
     ListV(<<IntV(1)>>), ListV(<<IntV(1), StrV(<<"a">>)>>)}

\* <<effective_time, feature_status>>
TimesAndStatuses ==
    {<<Null, Null>>, <<Text("2023-05-03T00:00:00"), Text("PRESENT")>>,
     <<Text("yesterday"), Null>>, <<Null, Text("ABSENT")>>}

ResponseRaws == {StrV(<<"1">>), FloatV(15), StrV(<<"a">>)}

MetadataEntries ==
    {[name |-> StrV(<<"a", ".", "a">>), dataType |-> IntDesc],
     [name |-> StrV(<<"a", ".", "b">>), dataType |-> [type |-> "float64"],
      status |-> Text("PRESENT"), effectiveTime |-> Text("2023-05-03T00:00:00")],
     [dataType |-> IntDesc],
     [name |-> StrV(<<"a", ".", "a">>)],
     [name |-> StrV(<<"a", ".", "a">>), dataType |-> [elementType |-> IntDesc]],
     [name |-> StrV(<<"a", ".", "a">>), dataType |-> [type |-> "uint8"]]}

MetadataLists == SeqsUpTo(MetadataEntries, MaxFeatures)

Responses ==
    {[result |-> [features |-> fv], metadata |-> [features |-> fm]] :
        fv \in SeqsUpTo(ResponseRaws, MaxFeatures), fm \in MetadataLists}
    \cup
    {[result |-> [features |-> fv],
      metadata |-> [features |-> fm,
                    sloInfo |-> [sloEligible |-> BoolV(TRUE),
                                 serverTimeSeconds |-> Null]]] :
        fv \in SeqsUpTo(ResponseRaws, MaxFeatures), fm \in MetadataLists}

\* A coroutine slot on which nothing has been called yet.
IdleTask ==
    [op |-> "none", pc |-> "idle", endpoint |-> <<>>, method |-> "",
     posted |-> <<>>, response |-> NoObject, result |-> Raise("", "")]

Init ==
    /\ call = "none"
    /\ args = <<>>
    /\ outcome = Raise("", "")
    /\ client = NoObject
    /\ tasks = [t \in 1..MaxTasks |-> IdleTask]

\* Value(data_type, feature_value)
ValueCall ==
    /\ call = "none"
    /\ \E c \in ValueCases :
        /\ call' = "Value"
        /\ args' = [data_type |-> c[1], feature_value |-> c[2]]
        /\ outcome' = ValueInit(c[1], c[2])
    /\ UNCHANGED <<client, tasks>>

\* FeatureValue(name, data_type, feature_value, effective_time, element_type,
\*              fields, feature_status)
FeatureValueCall ==
    /\ call = "none"
    /\ \E name \in FeatureNames, d \in TypeDescs, x \in FeatureRaws,
          ts \in TimesAndStatuses :
        /\ call' = "FeatureValue"
        /\ args' = [name |-> name, data_type |-> d[1], feature_value |-> x,
                    effective_time |-> ts[1], element_type |-> d[2],
                    fields |-> d[3], feature_status |-> ts[2]]
        /\ outcome' = FeatureValueInit(name, d[1], x, ts[1], d[2], d[3], ts[2])
    /\ UNCHANGED <<client, tasks>>

\* GetFeaturesResponse(response)
GetFeaturesResponseCall ==
    /\ call = "none"
    /\ \E response \in Responses :
        /\ call' = "GetFeaturesResponse"
        /\ args' = [response |-> response]
        /\ outcome' = GetFeaturesResponseInit(response)
    /\ UNCHANGED <<client, tasks>>

NextValue == ValueCall

NextFeature == FeatureValueCall

SpecFeature == Init /\ [][NextFeature]_vars

Next == GetFeaturesResponseCall

Spec == Init /\ [][Next]_vars

SpecValue == Init /\ [][NextValue]_vars

\* Every decoder entry point: Value, FeatureValue and GetFeaturesResponse.
NextDecode == ValueCall \/ FeatureValueCall \/ GetFeaturesResponseCall

SpecDecode == Init /\ [][NextDecode]_vars

(***************************************************************************)
(* Properties.                                                             *)
(***************************************************************************)
\* The exceptions the client library raises on purpose.
DecodeErrors == {"TectonClientError", "TectonClientException"}

SupportedTypeNames == {"int64", "float64", "string", "boolean", "array", "struct"}

DotCount(name) == Cardinality(DotPositions(name.v))

\* The metadata entry m carries a name and a type tag.
HasNameAndType(m) ==
    /\ "name" \in DOMAIN m
    /\ "dataType" \in DOMAIN m
    /\ "type" \in DOMAIN m.dataType

\* The DataType the metadata entry m declares.
DeclaredType(m) ==
    get_data_type(m.dataType.type, Get(m.dataType, "elementType"),
                  Get(m.dataType, "fields"))

\* Raw value x paired with metadata entry m is well formed: a dotted name, a
\* supported type, and a raw value its type converts.
WellFormedPair(x, m) ==
    /\ HasNameAndType(m)
    /\ m.name.tag = "str" /\ DotCount(m.name) = 1
    /\ m.dataType.type \in SupportedTypeNames
    /\ DeclaredType(m).ok
    /\ ValueInit(DeclaredType(m).val, x).ok

WellFormedResponse(response) ==
    LET fv == response.result.features
        fm == response.metadata.features
    IN  /\ Len(fv) > 0
        /\ Len(fm) = Len(fv)
        /\ \A i \in 1..Len(fv) : WellFormedPair(fv[i], fm[i])

\* C1: a well-formed response (non-empty value list, equal-length metadata,
\* dotted names, supported types, convertible raw values) constructs a
\* GetFeaturesResponse whose get_feature_values_dict() maps each metadata
\* name to the raw value decoded under the declared type.
C1_WellFormedResponseDecodes ==
    (call = "GetFeaturesResponse" /\ WellFormedResponse(args.response)) =>
        /\ outcome.ok
        /\ LET fv == args.response.result.features
               fm == args.response.metadata.features
               d == get_feature_values_dict(outcome.val).v
           IN  \A i \in 1..Len(fv) :
                   \E k \in 1..Len(d) :
                       /\ d[k][1] = fm[i].name
                       /\ (\A j \in (i + 1)..Len(fv) : fm[j].name # fm[i].name)
                              => d[k][2] = ValueOf(ValueInit(DeclaredType(fm[i]).val,
                                                             fv[i]).val)

\* C3: a response whose result feature list is empty fails with the
\* empty-result error of the client library, whatever its metadata, and
\* yields no response object.
C3_EmptyResultError ==
    (call = "GetFeaturesResponse" /\ args.response.result.features = <<>>) =>
        /\ ~outcome.ok
        /\ outcome.exc \in DecodeErrors
        /\ outcome.msg = "EMPTY_FEATURE_VECTOR"
        /\ outcome.val = NoObject

\* The metadata entries that lack a name or a recognizable type tag.
Offending(fm) ==
    {i \in 1..Len(fm) :
        \/ ~HasNameAndType(fm[i])
        \/ fm[i].dataType.type \notin SupportedTypeNames}

\* C4: with a non-empty value list, a metadata entry at any position that
\* lacks "name" or a recognizable dataType type tag makes the decode fail
\* with the missing-field error of the first such entry's field, before any
\* raw value is decoded.
C4_MissingFieldWins ==
    LET fm == args.response.metadata.features
    IN  (/\ call = "GetFeaturesResponse"
         /\ args.response.result.features # <<>>
         /\ Offending(fm) # {}) =>
            LET first == CHOOSE i \in Offending(fm) :
                             \A j \in Offending(fm) : i <= j
            IN  /\ ~outcome.ok
                /\ outcome.exc \in DecodeErrors
                /\ outcome.msg = IF "name" \notin DOMAIN fm[first]
                                 THEN "MISSING_EXPECTED_METADATA name"
                                 ELSE "MISSING_EXPECTED_METADATA data type"

\* C5: a response whose metadata feature list is shorter or longer than its
\* result feature list is rejected with a decode error of the client
\* library.
C5_LengthMismatchRejected ==
    (/\ call = "GetFeaturesResponse"
     /\ Len(args.response.metadata.features)
            # Len(args.response.result.features)) =>
        /\ ~outcome.ok
        /\ outcome.exc \in DecodeErrors

\* An element of the raw sequence fails to decode under the element type.
ArrayElementFails(data_type, x) ==
    \E i \in 1..Len(x.v) : ~ValueInit(data_type.element_type, x.v[i]).ok

\* A raw element fails to decode under the type of the field at its place.
StructFieldFails(data_type, x) ==
    \E i \in 1..Len(data_type.fields) :
        i <= Len(x.v) /\ ~ValueInit(data_type.fields[i].data_type, x.v[i]).ok

\* Some stage of the response decode fails at the 1-based index i.
ResponseIndexFails(response, i) ==
    LET fm == response.metadata.features
    IN  \/ i > Len(fm)
        \/ ~WellFormedPair(response.result.features[i], fm[i])

\* C6: decoding is all-or-nothing.  A failure of validation, of DataType
\* construction, of value decoding (also of an element nested in an array or
\* struct) or of name splitting ends the call with one error and no object:
\* never a response holding the entries decoded so far, never a partially
\* filled array or struct.
C6_AllOrNothing ==
    /\ (~outcome.ok) => outcome.val = NoObject
    /\ (call = "Value" /\ args.feature_value.tag = "list") =>
        /\ (args.data_type.kind = "ArrayType"
                /\ ArrayElementFails(args.data_type, args.feature_value))
              => ~outcome.ok
        /\ (args.data_type.kind = "ArrayType" /\ outcome.ok)
              => Len(outcome.val._value.v) = Len(args.feature_value.v)
        /\ (args.data_type.kind = "StructType"
                /\ StructFieldFails(args.data_type, args.feature_value))
              => ~outcome.ok
    /\ (/\ call = "FeatureValue"
        /\ args.name.tag = "str"
        /\ \/ DotCount(args.name) # 1
           \/ ~get_data_type(args.data_type, args.element_type, args.fields).ok
           \/ ~ValueInit(get_data_type(args.data_type, args.element_type,
                                       args.fields).val, args.feature_value).ok)
          => ~outcome.ok
    /\ call = "GetFeaturesResponse" =>
        LET fv == args.response.result.features
        IN  /\ (fv = <<>> \/ \E i \in 1..Len(fv) :
                                 ResponseIndexFails(args.response, i))
                  => ~outcome.ok
            /\ outcome.ok => Len(outcome.val.feature_values) = Len(fv)

\* C6 witness: an array whose first element decodes and whose second does
\* not; the decode has failed.
C6_Witness ==
    /\ call = "Value"
    /\ args.data_type.kind = "ArrayType"
    /\ args.feature_value.tag = "list"
    /\ Len(args.feature_value.v) = 2
    /\ ValueInit(args.data_type.element_type, args.feature_value.v[1]).ok
    /\ ~ValueInit(args.data_type.element_type, args.feature_value.v[2]).ok
    /\ ~outcome.ok

SixVariants ==
    {"IntType", "FloatType", "StringType", "BoolType", "ArrayType", "StructType"}

\* What element x of a sequence decodes to under data_type: absent for the
\* null marker, its own decoding otherwise.
NullOrDecoded(data_type, x) ==
    IF x.tag = "null" THEN Null ELSE ValueOf(ValueInit(data_type, x).val)

DecodesUnlessNull(data_type, x) ==
    x.tag = "null" \/ ValueInit(data_type, x).ok

DistinctFieldNames(fields) ==
    \A i, j \in 1..Len(fields) : fields[i].name = fields[j].name => i = j

\* C7: under each of the six DataType variants the null marker decodes to an
\* absent Value of that type (.value is None); a null element of an array or
\* a null field of a struct decodes to an absent value while its siblings
\* decode as they do alone.
C7_NullDecodesAbsent ==
    call = "Value" =>
        LET dt == args.data_type
            x == args.feature_value
        IN  /\ (x.tag = "null" /\ dt.kind \in SixVariants) =>
                /\ outcome.ok
                /\ outcome.val.data_type = dt
                /\ outcome.val._value = Null
                /\ ValueOf(outcome.val) = Null
            /\ (/\ dt.kind = "ArrayType"
                /\ x.tag = "list"
                /\ \A i \in 1..Len(x.v) : DecodesUnlessNull(dt.element_type, x.v[i])) =>
                /\ outcome.ok
                /\ ValueOf(outcome.val) =
                       ListV([i \in 1..Len(x.v) |->
                                 NullOrDecoded(dt.element_type, x.v[i])])
            /\ (/\ dt.kind = "StructType"
                /\ x.tag = "list"
                /\ Len(x.v) = Len(dt.fields)
                /\ DistinctFieldNames(dt.fields)
                /\ \A i \in 1..Len(x.v) :
                       DecodesUnlessNull(dt.fields[i].data_type, x.v[i])) =>
                /\ outcome.ok
                /\ ValueOf(outcome.val) =
                       DictV([i \in 1..Len(x.v) |->
                                 <<dt.fields[i].name,
                                   NullOrDecoded(dt.fields[i].data_type, x.v[i])>>])

\* C7 witness: an array holding a null element beside a non-null one has
\* been decoded.
C7_Witness ==
    /\ call = "Value"
    /\ args.data_type.kind = "ArrayType"
    /\ args.feature_value.tag = "list"
    /\ \E i, j \in 1..Len(args.feature_value.v) :
           /\ args.feature_value.v[i].tag = "null"
           /\ args.feature_value.v[j].tag # "null"
    /\ outcome.ok

\* C8: a non-null raw sequence decoded against a Struct type fails with a
\* decode error whenever its length differs from the number of declared
\* fields, shorter or longer.
C8_StructShapeMismatch ==
    (/\ call = "Value"
     /\ args.data_type.kind = "StructType"
     /\ args.feature_value.tag = "list"
     /\ Len(args.feature_value.v) # Len(args.data_type.fields)) =>
        /\ ~outcome.ok
        /\ outcome.exc \in DecodeErrors

\* A string of digits.
NumericInt(x) == x.tag = "str" /\ Len(x.v) > 0 /\ AllDigits(x.v)

\* A string of digits with at most one ".".
NumericFloat(x) ==
    /\ x.tag = "str"
    /\ \E i \in 1..Len(x.v) : IsDigit(x.v[i])
    /\ \A i \in 1..Len(x.v) : IsDigit(x.v[i]) \/ x.v[i] = "."
    /\ Cardinality(DotPositions(x.v)) <= 1

\* The conversions that fail or lose information.
LossyConversion(data_type, x) ==
    \/ data_type.kind = "IntType"
           /\ \/ x.tag = "str" /\ ~NumericInt(x)
              \/ x.tag = "float" /\ x.v % 10 # 0
    \/ data_type.kind = "FloatType" /\ x.tag = "str" /\ ~NumericFloat(x)
    \/ data_type.kind = "BoolType" /\ x.tag = "str" /\ x.v = <<"a">>

\* C9: no silent coercion.  A non-numeric string for Integer or Float, a
\* fractional number for Integer, an arbitrary non-empty string for Boolean
\* yield a type-mismatch decode error, not a decoded value.
C9_NoSilentCoercion ==
    (call = "Value" /\ LossyConversion(args.data_type, args.feature_value)) =>
        /\ ~outcome.ok
        /\ outcome.exc \in DecodeErrors

\* C10: the name of a Feature Entry splits into (namespace, feature-name)
\* only when it holds exactly one "."; with no "." or with two or more the
\* construction fails with the invalid-name error and no entry is created.
C10_NameSplit ==
    (call = "FeatureValue" /\ args.name.tag = "str") =>
        LET dots == DotPositions(args.name.v)
        IN  /\ Cardinality(dots) # 1 =>
                /\ ~outcome.ok
                /\ outcome.exc = "TectonClientError"
                /\ outcome.msg = "not in the expected format"
                /\ outcome.val = NoObject
            /\ Cardinality(dots) = 1 =>
                outcome.msg # "not in the expected format"
            /\ outcome.ok =>
                LET d == CHOOSE i \in dots : TRUE
                IN  /\ Cardinality(dots) = 1
                    /\ outcome.val.feature_namespace
                           = StrV(SubSeq(args.name.v, 1, d - 1))
                    /\ outcome.val.feature_name
                           = StrV(SubSeq(args.name.v, d + 1, Len(args.name.v)))

\* C10 witness: a name with two separators has been refused.
C10_Witness ==
    /\ call = "FeatureValue"
    /\ args.name.tag = "str"
    /\ Cardinality(DotPositions(args.name.v)) = 2
    /\ ~outcome.ok

(***************************************************************************)
(* Nested decoding.                                                        *)
(***************************************************************************)
LeafKinds == {"IntType", "FloatType", "StringType", "BoolType"}

\* The raw datum x has the shape the type tree data_type declares: a list
\* per Array, a list with one element per field for a Struct whose field
\* names are distinct, a scalar its leaf converts at a leaf; None anywhere.
RECURSIVE MatchesShape(_, _)
MatchesShape(data_type, x) ==
    IF x.tag = "null" THEN data_type.kind \in SixVariants
    ELSE CASE data_type.kind \in LeafKinds ->
                 /\ x.tag \notin {"list", "dict"}
                 /\ convert(data_type, x).ok
           [] data_type.kind = "ArrayType" ->
                 /\ x.tag = "list"
                 /\ \A i \in 1..Len(x.v) :
                        MatchesShape(data_type.element_type, x.v[i])
           [] data_type.kind = "StructType" ->
                 /\ x.tag = "list"
                 /\ Len(x.v) = Len(data_type.fields)
                 /\ DistinctFieldNames(data_type.fields)
                 /\ \A i \in 1..Len(x.v) :
                        MatchesShape(data_type.fields[i].data_type, x.v[i])
           [] OTHER -> FALSE

\* The value the shape of data_type prescribes for a matching raw datum.
RECURSIVE ShapeOf(_, _)
ShapeOf(data_type, x) ==
    IF x.tag = "null" THEN Null
    ELSE CASE data_type.kind \in LeafKinds -> convert(data_type, x).val
           [] data_type.kind = "ArrayType" ->
                 ListV([i \in 1..Len(x.v) |->
                           ShapeOf(data_type.element_type, x.v[i])])
           [] data_type.kind = "StructType" ->
                 DictV([i \in 1..Len(x.v) |->
                           <<data_type.fields[i].name,
                             ShapeOf(data_type.fields[i].data_type, x.v[i])>>])

\* C11: for a type tree of leaves, Arrays and Structs and a raw datum of
\* matching shape, Value decodes and Value.value has the nested shape: a
\* list with one decoded element per raw element in order for an Array, and
\* for a Struct a mapping with the declared field names in declared order,
\* the i-th raw element decoded under the i-th field's type.
C11_NestedShape ==
    (call = "Value" /\ MatchesShape(args.data_type, args.feature_value)) =>
        /\ outcome.ok
        /\ ValueOf(outcome.val) = ShapeOf(args.data_type, args.feature_value)

\* An array of structs decoded from a non-empty list of field lists.
C11_Witness ==
    /\ call = "Value"
    /\ args.data_type.kind = "ArrayType"
    /\ args.data_type.element_type.kind = "StructType"
    /\ MatchesShape(args.data_type, args.feature_value)
    /\ \E i \in 1..Len(args.feature_value.v) :
           args.feature_value.v[i].tag = "list"
    /\ outcome.ok
    /\ ValueOf(outcome.val).v[1].tag = "dict"
    /\ Len(ValueOf(outcome.val).v[1].v) = 2

(***************************************************************************)
(* Response statistics.                                                    *)
(***************************************************************************)
\* The statistics the server sent with a non-null value, under the attribute
\* names of SloInformation, in attribute order.
SentStatistics(slo_information) ==
    LET sent == SelectSeq(SloAttributes,
                          LAMBDA a : /\ a[2] \in DOMAIN slo_information
                                     /\ slo_information[a[2]] # Null)
    IN  DictV([i \in 1..Len(sent) |-> <<sent[i][1], slo_information[sent[i][2]]>>])

\* C12: a well-formed response constructs a GetFeaturesResponse whose
\* slo_info is not None exactly when the metadata has an sloInfo block, and
\* then to_dict() holds exactly the statistics sent with a non-null value,
\* each with the server's value, and no key for an omitted one.
C12_SloInfoPresence ==
    (call = "GetFeaturesResponse" /\ WellFormedResponse(args.response)) =>
        /\ outcome.ok
        /\ (outcome.val.slo_info # Null) <=>
               ("sloInfo" \in DOMAIN args.response.metadata)
        /\ ("sloInfo" \in DOMAIN args.response.metadata) =>
               to_dict(outcome.val.slo_info) =
                   SentStatistics(args.response.metadata.sloInfo)

(***************************************************************************)
(* tecton_client.request: MetadataOptions, GetFeatureRequestData and       *)
(* GetFeaturesRequest as tests/request/requests_test.py calls them.        *)
(***************************************************************************)
MetadataOptions == {"NAME", "DATA_TYPE", "EFFECTIVE_TIME", "FEATURE_STATUS", "SLO_INFO"}

\* MetadataOptions.defaults()
defaults == {"NAME", "DATA_TYPE"}

\* The wire field of an option.
WireField(option) ==
    CASE option = "NAME" -> "include_names"
      [] option = "DATA_TYPE" -> "include_data_types"
      [] option = "EFFECTIVE_TIME" -> "include_effective_times"
      [] option = "FEATURE_STATUS" -> "include_serving_status"
      [] option = "SLO_INFO" -> "include_slo_info"

\* The characters of a wire field name.
Spelling(field) ==
    CASE field = "include_names" ->
            <<"i", "n", "c", "l", "u", "d", "e", "_", "n", "a", "m", "e", "s">>
      [] field = "include_data_types" ->
            <<"i", "n", "c", "l", "u", "d", "e", "_", "d", "a", "t", "a", "_", "t", "y", "p", "e", "s">>
      [] field = "include_effective_times" ->
            <<"i", "n", "c", "l", "u", "d", "e", "_", "e", "f", "f", "e", "c", "t", "i", "v", "e", "_", "t", "i", "m", "e", "s">>
      [] field = "include_serving_status" ->
            <<"i", "n", "c", "l", "u", "d", "e", "_", "s", "e", "r", "v", "i", "n", "g", "_", "s", "t", "a", "t", "u", "s">>
      [] field = "include_slo_info" ->
            <<"i", "n", "c", "l", "u", "d", "e", "_", "s", "l", "o", "_", "i", "n", "f", "o">>

\* The characters of the field names in code-point order.
CharOrder ==
    <<"_", "a", "b", "c", "d", "e", "f", "g", "h", "i", "j", "k", "l", "m", "n", "o", "p", "q", "r", "s", "t", "u", "v", "w", "x", "y", "z">>

CharRank(c) == CHOOSE i \in 1..Len(CharOrder) : CharOrder[i] = c

\* a < b for two strings given by their characters.
RECURSIVE LexLess(_, _)
LexLess(a, b) ==
    IF a = <<>> THEN b # <<>>
    ELSE IF b = <<>> THEN FALSE
    ELSE IF Head(a) = Head(b) THEN LexLess(Tail(a), Tail(b))
    ELSE CharRank(Head(a)) < CharRank(Head(b))

\* sorted(names)
RECURSIVE Sorted(_)
Sorted(names) ==
    IF names = {} THEN <<>>
    ELSE LET least == CHOOSE x \in names :
                          \A y \in names \ {x} : LexLess(Spelling(x), Spelling(y))
         IN  <<least>> \o Sorted(names \ {least})

\* An option selection of the caller: None, or a set of options.
NoSelection == [given |-> FALSE, flags |-> {}]
Selection(flags) == [given |-> TRUE, flags |-> flags]

\* GetFeaturesRequest.metadata_options
metadata_options_given_only(selection) ==
    IF selection.given /\ selection.flags # {} THEN selection.flags ELSE defaults

metadata_options(selection) ==
    (IF selection.given THEN selection.flags ELSE {}) \cup defaults

\* The metadata_options object of the request body.
serialize_metadata_options(options) ==
    LET names == Sorted({WireField(o) : o \in options})
    IN  DictV([i \in 1..Len(names) |-> <<names[i], BoolV(TRUE)>>])

\* A map argument is None or a dict; both count as empty.
MapEmpty(m) == IsNone(m) \/ m.v = <<>>

\* m or {}
OrEmptyDict(m) == IF IsNone(m) THEN DictV(<<>>) ELSE m

\* GetFeatureRequestData(join_key_map, request_context_map): an omitted map
\* is kept as an empty dict.
GetFeatureRequestData(join_key_map, request_context_map) ==
    IF MapEmpty(join_key_map) /\ MapEmpty(request_context_map)
    THEN Raise("InvalidParameterException", "empty maps")
    ELSE Ok([join_key_map |-> OrEmptyDict(join_key_map),
             request_context_map |-> OrEmptyDict(request_context_map)])

\* GetFeaturesRequest.to_json before json.dumps: {"params": {...}}
params_with_empty_maps(workspace_name, feature_service_name, request_data, options) ==
    DictV(<< <<"feature_service_name", feature_service_name>>,
             <<"workspace_name", workspace_name>>,
             <<"metadata_options", serialize_metadata_options(options)>>,
             <<"join_key_map", request_data.join_key_map>>,
             <<"request_context_map", request_data.request_context_map>> >>)

params(workspace_name, feature_service_name, request_data, options) ==
    DictV(<< <<"feature_service_name", feature_service_name>>,
             <<"workspace_name", workspace_name>>,
             <<"metadata_options", serialize_metadata_options(options)>> >>
          \o (IF request_data.join_key_map.v = <<>> THEN <<>>
              ELSE << <<"join_key_map", request_data.join_key_map>> >>)
          \o (IF request_data.request_context_map.v = <<>> THEN <<>>
              ELSE << <<"request_context_map", request_data.request_context_map>> >>))

\* json.dumps(x): the JSON document of a Python value, members in dict order.
RECURSIVE json_dumps(_)
json_dumps(x) ==
    CASE x.tag = "null" -> [json |-> "null"]
      [] x.tag = "bool" -> [json |-> IF x.v THEN "true" ELSE "false"]
      [] x.tag \in {"int", "float"} -> [json |-> "number", v |-> x.v]
      [] x.tag \in {"text", "str"} -> [json |-> "string", v |-> x.v]
      [] x.tag = "list" ->
            [json |-> "array", v |-> [i \in 1..Len(x.v) |-> json_dumps(x.v[i])]]
      [] x.tag = "dict" ->
            [json |-> "object",
             v |-> [i \in 1..Len(x.v) |-> <<x.v[i][1], json_dumps(x.v[i][2])>>]]

\* GetFeaturesRequest(workspace_name, feature_service_name, request_data,
\*                    metadata_options)
GetFeaturesRequestServiceFirst(workspace_name, feature_service_name, request_data, selection) ==
    IF ~Truthy(feature_service_name)
    THEN Raise("InvalidParameterException", "feature_service_name")
    ELSE IF ~Truthy(workspace_name)
    THEN Raise("InvalidParameterException", "workspace")
    ELSE Ok([workspace_name |-> workspace_name,
             feature_service_name |-> feature_service_name,
             request_data |-> request_data,
             metadata_options |-> metadata_options(selection),
             to_json |-> json_dumps(DictV(<< <<"params",
                             params(workspace_name, feature_service_name,
                                    request_data,
                                    metadata_options(selection))>> >>))])

GetFeaturesRequest(workspace_name, feature_service_name, request_data, selection) ==
    IF ~Truthy(workspace_name)
    THEN Raise("InvalidParameterException", "workspace")
    ELSE IF ~Truthy(feature_service_name)
    THEN Raise("InvalidParameterException", "feature_service_name")
    ELSE Ok([workspace_name |-> workspace_name,
             feature_service_name |-> feature_service_name,
             request_data |-> request_data,
             metadata_options |-> metadata_options(selection),
             to_json |-> json_dumps(DictV(<< <<"params",
                             params(workspace_name, feature_service_name,
                                    request_data,
                                    metadata_options(selection))>> >>))])

\* GetFeaturesRequest(w, s, GetFeatureRequestData(j, r), selection): the
\* argument is evaluated before the request is constructed.
BuildRequest(workspace_name, feature_service_name, join_key_map, request_context_map, selection) ==
    LET request_data == GetFeatureRequestData(join_key_map, request_context_map)
    IN  IF ~request_data.ok THEN request_data
        ELSE GetFeaturesRequest(workspace_name, feature_service_name,
                                request_data.val, selection)

\* Request inputs.
RequestNames == {Null, Text(""), Text("test_name")}

MapKeys == {"test_key", "test_none_key"}

JoinValues == {Text("test_value"), Null}

ContextValues == {Text("test_val"), FloatV(1234)}

\* The dicts with at most MaxLen distinct keys, in every insertion order.
MapsOver(values) ==
    {DictV(kvs) : kvs \in {q \in SeqsUpTo(MapKeys \X values, MaxLen) :
                              \A i, j \in 1..Len(q) : q[i][1] = q[j][1] => i = j}}

JoinKeyMaps == {Null} \cup MapsOver(JoinValues)

RequestContextMaps == {Null} \cup MapsOver(ContextValues)

Selections == {NoSelection} \cup {Selection(flags) : flags \in SUBSET MetadataOptions}

GetFeaturesRequestCall ==
    /\ call = "none"
    /\ \E w \in RequestNames, s \in RequestNames, j \in JoinKeyMaps,
          r \in RequestContextMaps, selection \in Selections :
        /\ call' = "GetFeaturesRequest"
        /\ args' = [workspace_name |-> w, feature_service_name |-> s,
                    join_key_map |-> j, request_context_map |-> r,
                    metadata_options |-> selection]
        /\ outcome' = BuildRequest(w, s, j, r, selection)
    /\ UNCHANGED <<client, tasks>>

NextRequest == GetFeaturesRequestCall

SpecRequest == Init /\ [][NextRequest]_vars

(***************************************************************************)
(* Request properties.                                                     *)
(***************************************************************************)
\* The member names of a JSON object, in document order.
JsonKeys(obj) == [i \in 1..Len(obj.v) |-> obj.v[i][1]]

JsonHas(obj, k) == \E i \in 1..Len(obj.v) : obj.v[i][1] = k

JsonMember(obj, k) == obj.v[CHOOSE i \in 1..Len(obj.v) : obj.v[i][1] = k][2]

\* The params object of a built request.
Body(request) == JsonMember(request.to_json, "params")

\* The option fields in the order the expected bodies of the tests list them.
TestFieldOrder ==
    <<"include_data_types", "include_effective_times", "include_names",
      "include_serving_status", "include_slo_info">>

BothMapsEmpty == MapEmpty(args.join_key_map) /\ MapEmpty(args.request_context_map)

ValidRequestArgs ==
    /\ Truthy(args.workspace_name)
    /\ Truthy(args.feature_service_name)
    /\ ~BothMapsEmpty

\* C13: for every selection S of options, the empty and the absent one
\* included, the request's option set is S with NAME and DATA_TYPE added,
\* and the metadata_options object has exactly the wire fields of that set,
\* each true, in sorted field-name order, and no other member.
C13_MetadataOptions ==
    (call = "GetFeaturesRequest" /\ ValidRequestArgs) =>
        LET S == IF args.metadata_options.given
                 THEN args.metadata_options.flags ELSE {}
            U == S \cup {"NAME", "DATA_TYPE"}
        IN  /\ outcome.ok
            /\ outcome.val.metadata_options = U
            /\ LET mo == JsonMember(Body(outcome.val), "metadata_options")
               IN  /\ mo.json = "object"
                   /\ JsonKeys(mo) =
                          SelectSeq(TestFieldOrder,
                                    LAMBDA f : \E o \in U : WireField(o) = f)
                   /\ \A i \in 1..Len(mo.v) : mo.v[i][2] = [json |-> "true"]

\* The selection {NAME, SLO_INFO} serialized as three fields.
C13_Witness ==
    /\ call = "GetFeaturesRequest"
    /\ args.metadata_options = Selection({"NAME", "SLO_INFO"})
    /\ outcome.ok
    /\ JsonKeys(JsonMember(Body(outcome.val), "metadata_options")) =
           <<"include_data_types", "include_names", "include_slo_info">>

InvalidParameter(field) ==
    /\ ~outcome.ok
    /\ outcome.exc = "InvalidParameterException"
    /\ outcome.msg = field
    /\ outcome.val = NoObject

\* C14 as stated: the workspace error comes first, then the
\* feature_service_name error, and only then the empty-maps error.
C14_WorkspaceFirst ==
    call = "GetFeaturesRequest" =>
        /\ ~Truthy(args.workspace_name) => InvalidParameter("workspace")
        /\ (Truthy(args.workspace_name) /\ ~Truthy(args.feature_service_name))
               => InvalidParameter("feature_service_name")
        /\ (/\ Truthy(args.workspace_name)
            /\ Truthy(args.feature_service_name)
            /\ BothMapsEmpty) => InvalidParameter("empty maps")
        /\ ~outcome.ok => outcome.val = NoObject

\* C14: building the request data fails with the empty-maps error when both
\* maps are empty, whatever the workspace and the service name; with request
\* data built, an empty or absent workspace is the workspace error even if
\* the service name is invalid too, and only then an empty or absent service
\* name is the feature_service_name error; a failure yields no request.
C14_MapsFirst ==
    call = "GetFeaturesRequest" =>
        /\ BothMapsEmpty => InvalidParameter("empty maps")
        /\ (~BothMapsEmpty /\ ~Truthy(args.workspace_name))
               => InvalidParameter("workspace")
        /\ (/\ ~BothMapsEmpty
            /\ Truthy(args.workspace_name)
            /\ ~Truthy(args.feature_service_name))
               => InvalidParameter("feature_service_name")
        /\ ~outcome.ok => outcome.val = NoObject

\* Everything invalid at once: the empty maps are what is reported.
C14_Witness ==
    /\ call = "GetFeaturesRequest"
    /\ ~Truthy(args.workspace_name)
    /\ ~Truthy(args.feature_service_name)
    /\ BothMapsEmpty
    /\ InvalidParameter("empty maps")

\* The JSON member list a caller's map serializes to.
JsonEntries(m) ==
    [i \in 1..Len(m.v) |->
        <<m.v[i][1],
          CASE m.v[i][2].tag = "null" -> [json |-> "null"]
            [] m.v[i][2].tag = "text" -> [json |-> "string", v |-> m.v[i][2].v]
            [] OTHER -> [json |-> "number", v |-> m.v[i][2].v]>>]

\* C15: a built request has the join_key_map member exactly when the
\* join-key map is non-empty and the request_context_map member exactly when
\* the request-context map is non-empty; each serialized map lists the
\* caller's entries in insertion order, an absent join-key value as null.
C15_MapsSerialized ==
    (call = "GetFeaturesRequest" /\ ValidRequestArgs) =>
        /\ outcome.ok
        /\ LET body == Body(outcome.val)
           IN  /\ JsonHas(body, "join_key_map") <=> ~MapEmpty(args.join_key_map)
               /\ JsonHas(body, "request_context_map")
                      <=> ~MapEmpty(args.request_context_map)
               /\ ~MapEmpty(args.join_key_map) =>
                      JsonMember(body, "join_key_map") =
                          [json |-> "object", v |-> JsonEntries(args.join_key_map)]
               /\ ~MapEmpty(args.request_context_map) =>
                      JsonMember(body, "request_context_map") =
                          [json |-> "object",
                           v |-> JsonEntries(args.request_context_map)]

\* A null join key inserted first and an empty request-context dict.
C15_Witness ==
    /\ call = "GetFeaturesRequest"
    /\ args.join_key_map =
           DictV(<< <<"test_none_key", Null>>, <<"test_key", Text("test_value")>> >>)
    /\ args.request_context_map = DictV(<<>>)
    /\ outcome.ok
    /\ JsonKeys(Body(outcome.val)) =
           <<"feature_service_name", "workspace_name", "metadata_options",
             "join_key_map">>
    /\ JsonMember(Body(outcome.val), "join_key_map").v[1] =
           <<"test_none_key", [json |-> "null"]>>

(***************************************************************************)
(* class TectonHttpClient: tecton_client/http_client.py and                *)
(* tecton_client/transport/tecton_http_client.py.                          *)
(* http_client.py holds both sides of an unmerged conflict in validate_url *)
(* and validate_key; the class is modelled once per side ("HEAD",          *)
(* "feead27"), next to the transport class ("transport").                  *)
(***************************************************************************)
Variants == {"HEAD", "feead27", "transport"}

\* not x, for an optional str argument.
PyNot(x) ==
    \/ IsNone(x)
    \/ x.tag = "str" /\ x.v = <<>>
    \/ x.tag = "text" /\ x.v = ""

\* The characters urls are written in: a letter and the delimiters.
UrlChars == {"s", ":", "/", "#", "["}

\* string.ascii_letters and scheme_chars, among UrlChars.
Letters == {"s"}
SchemeChars == {"s"}

\* cs.find(c, start) for c in S, 1-based; 0 when there is none.
FirstIndex(cs, S, start) ==
    LET hits == {i \in start..Len(cs) : cs[i] \in S}
    IN  IF hits = {} THEN 0 ELSE CHOOSE i \in hits : \A j \in hits : i <= j

\* urllib.parse.urlparse(url): scheme and netloc, or the ValueError of an
\* unbalanced bracket in the netloc.
urlparse(url) ==
    LET i == FirstIndex(url, {":"}, 1)
        has_scheme == /\ i > 1
                      /\ url[1] \in Letters
                      /\ \A k \in 1..(i - 1) : url[k] \in SchemeChars
        scheme == IF has_scheme THEN SubSeq(url, 1, i - 1) ELSE <<>>
        rest == IF has_scheme THEN SubSeq(url, i + 1, Len(url)) ELSE url
        slashes == Len(rest) >= 2 /\ rest[1] = "/" /\ rest[2] = "/"
        delim == FirstIndex(rest, {"/", "?", "#"}, 3)
        netloc == IF ~slashes THEN <<>>
                  ELSE SubSeq(rest, 3, IF delim = 0 THEN Len(rest) ELSE delim - 1)
        opening == \E k \in 1..Len(netloc) : netloc[k] = "["
        closing == \E k \in 1..Len(netloc) : netloc[k] = "]"
    IN  IF opening # closing THEN Raise("ValueError", "Invalid IPv6 URL")
        ELSE Ok([scheme |-> scheme, netloc |-> netloc])

\* The names http_client.py imports from tecton_client.exceptions.
HttpClientNames ==
    {"InvalidParameterException", "InvalidParameterMessage", "INVALID_SERVER_RESPONSE"}

\* raise cls(m) in http_client.py
RaiseInHttpClient(cls, m) ==
    IF cls \in HttpClientNames THEN Raise(cls, m) ELSE Raise("NameError", cls)

\* validate_url, HEAD side of http_client.py
validate_url_HEAD(url) ==
    IF PyNot(url) THEN RaiseInHttpClient("InvalidParameterException", "URL")
    ELSE LET parsed == urlparse(url.v)
         IN  IF ~parsed.ok THEN parsed
             ELSE IF parsed.val.netloc = <<>>
             THEN RaiseInHttpClient("InvalidParameterException", "URL")
             ELSE Ok(url)

\* validate_url, feead27 side of http_client.py
validate_url_feead27(url) ==
    IF PyNot(url) THEN RaiseInHttpClient("TectonInvalidParameterException", "INVALID_URL")
    ELSE IF ~urlparse(url.v).ok
    THEN RaiseInHttpClient("TectonInvalidParameterException", "INVALID_URL")
    ELSE Ok(url)

\* validate_url of transport/tecton_http_client.py
validate_url_transport(url) ==
    IF ~PyNot(url)
    THEN IF ~urlparse(url.v).ok
         THEN Raise("TectonClientException", "INVALID_URL")
         ELSE Ok(url)
    ELSE Raise("TectonClientException", "INVALID_URL")

validate_url(variant, url) ==
    CASE variant = "HEAD" -> validate_url_HEAD(url)
      [] variant = "feead27" -> validate_url_feead27(url)
      [] variant = "transport" -> validate_url_transport(url)

validate_key(variant, api_key) ==
    IF PyNot(api_key)
    THEN CASE variant = "HEAD" ->
                 RaiseInHttpClient("InvalidParameterException", "KEY")
           [] variant = "feead27" ->
                 RaiseInHttpClient("TectonInvalidParameterException", "INVALID_KEY")
           [] variant = "transport" ->
                 Raise("TectonClientException", "INVALID_KEY")
    ELSE Ok(api_key)

\* TectonHttpClient.__init__(url, api_key)
TectonHttpClientInit(variant, url, api_key) ==
    LET checked_url == validate_url(variant, url)
        checked_key == validate_key(variant, api_key)
    IN  IF ~checked_url.ok THEN checked_url
        ELSE IF ~checked_key.ok THEN checked_key
        ELSE Ok([variant |-> variant,
                 url |-> url,
                 api_key |-> api_key,
                 auth |-> <<"Authorization", "Tecton-key", api_key>>,
                 client |-> [is_closed |-> FALSE],
                 is_client_closed |-> FALSE])

\* The property is_closed.
is_closed(self) == self.is_client_closed

\* Constructor inputs.
Urls == {Null} \cup {StrV(cs) : cs \in SeqsUpTo(UrlChars, MaxUrlLen)}

ApiKeys == {Null, Text(""), Text("1234")}

\* TectonHttpClient(url, api_key)
TectonHttpClientCall ==
    /\ call = "none"
    /\ \E variant \in Variants, url \in Urls, api_key \in ApiKeys :
        /\ call' = "TectonHttpClient"
        /\ args' = [variant |-> variant, url |-> url, api_key |-> api_key]
        /\ outcome' = TectonHttpClientInit(variant, url, api_key)
    /\ UNCHANGED <<client, tasks>>

NextConstruct == TectonHttpClientCall

SpecConstruct == Init /\ [][NextConstruct]_vars

\* The url is None, empty, or parses to no network location.
NotWellFormed(url) ==
    \/ PyNot(url)
    \/ urlparse(url.v).ok /\ urlparse(url.v).val.netloc = <<>>

\* The invalid-URL and invalid-parameter errors of the client library.
InvalidUrlError ==
    /\ ~outcome.ok
    /\ outcome.exc \in {"InvalidParameterException", "TectonClientException",
                        "InvalidURLError"}
    /\ outcome.msg \in {"URL", "INVALID_URL"}

InvalidKeyError ==
    /\ ~outcome.ok
    /\ outcome.exc \in {"InvalidParameterException", "TectonClientException",
                        "InvalidParameterError"}
    /\ outcome.msg \in {"KEY", "INVALID_KEY"}

\* C16: in every variant of the class, constructing TectonHttpClient with a
\* url that is None, empty or without a network location fails with the
\* invalid-URL error, with an api_key that is None or empty (the url being
\* well formed) fails with the invalid-parameter error, and a failed
\* construction returns no client.
C16_ConstructorValidates ==
    call = "TectonHttpClient" =>
        /\ NotWellFormed(args.url) => InvalidUrlError
        /\ (~NotWellFormed(args.url) /\ urlparse(args.url.v).ok /\ PyNot(args.api_key))
               => InvalidKeyError
        /\ ~outcome.ok => outcome.val = NoObject

(***************************************************************************)
(* close(), execute_request() and perform_request() as coroutines on one   *)
(* client: each await is a point where the other coroutines may run.       *)
(***************************************************************************)
\* exceptions.INVALID_SERVER_RESPONSE(response): raises the server error.
INVALID_SERVER_RESPONSE(response) ==
    Raise("TectonServerException", "invalid server response")

\* response.json()
response_json(response) ==
    IF response.body.tag = "dict" THEN Ok(response.body)
    ELSE Raise("JSONDecodeError", "Expecting value")

\* d[k] for a dict d
PyGetItem(d, k) ==
    IF \E i \in 1..Len(d.v) : d.v[i][1] = k
    THEN Ok(d.v[CHOOSE i \in 1..Len(d.v) : d.v[i][1] = k][2])
    ELSE Raise("KeyError", k)

\* perform_request after the await, transport class: lines 65-71.
perform_request_result(response) ==
    IF response.status_code = 200 THEN response_json(response)
    ELSE LET body == response_json(response)
         IN  IF ~body.ok THEN body
             ELSE LET message == PyGetItem(body.val, "message")
                  IN  IF ~message.ok THEN message
                      ELSE IF message.val.tag # "text"
                      THEN Raise("TypeError", "can only concatenate str")
                      ELSE Raise("TectonServerException", message.val.v)

\* execute_request after the await, http_client.py: lines 69-72.
execute_request_result(response) ==
    IF response.status_code = 200 THEN response_json(response)
    ELSE LET raised == INVALID_SERVER_RESPONSE(response)
         IN  IF raised.ok THEN Ok(Null) ELSE raised

\* The urls, keys, endpoints, methods and responses of the client runs.
ClientUrls ==
    {Null, StrV(<<"/", "/", "s">>), StrV(<<"s", ":", "/", "/", "s">>)}

ClientKeys == {Text("1234")}

Endpoints == {<<"e">>}

Methods == {"GET", "POST"}

StatusCodes == {200, 401, 500}

ResponseBodies ==
    {DictV(<< <<"result", Text("r")>> >>),
     DictV(<< <<"message", Text("m")>> >>),
     Text("<html>")}

\* TectonHttpClient(url, api_key), kept by the caller when it is returned.
Construct ==
    /\ call = "none"
    /\ client = NoObject
    /\ \E variant \in Variants, url \in ClientUrls, api_key \in ClientKeys :
        /\ call' = "TectonHttpClient"
        /\ args' = [variant |-> variant, url |-> url, api_key |-> api_key]
        /\ outcome' = TectonHttpClientInit(variant, url, api_key)
        /\ client' = IF TectonHttpClientInit(variant, url, api_key).ok
                     THEN TectonHttpClientInit(variant, url, api_key).val
                     ELSE NoObject
    /\ UNCHANGED tasks

\* close() is called and reaches await self.client.aclose().
CloseCallFlagFirst ==
    /\ client # NoObject
    /\ \E t \in 1..MaxTasks :
        /\ tasks[t].pc = "idle"
        /\ tasks' = [tasks EXCEPT ![t] = [IdleTask EXCEPT !.op = "close",
                                                          !.pc = "aclose"]]
    /\ client' = [client EXCEPT !.is_client_closed = TRUE]
    /\ UNCHANGED <<call, args, outcome>>

CloseCall ==
    /\ client # NoObject
    /\ \E t \in 1..MaxTasks :
        /\ tasks[t].pc = "idle"
        /\ tasks' = [tasks EXCEPT ![t] = [IdleTask EXCEPT !.op = "close",
                                                          !.pc = "aclose"]]
    /\ UNCHANGED <<call, args, outcome, client>>

\* The underlying client's aclose() finishes.
AcloseFinish ==
    /\ \E t \in 1..MaxTasks :
        /\ tasks[t].op = "close"
        /\ tasks[t].pc = "aclose"
        /\ tasks' = [tasks EXCEPT ![t].pc = "resume"]
    /\ client' = [client EXCEPT !.client = [is_closed |-> TRUE]]
    /\ UNCHANGED <<call, args, outcome>>

\* close() resumes after the await: self.is_client_closed = True.
CloseReturn ==
    /\ \E t \in 1..MaxTasks :
        /\ tasks[t].op = "close"
        /\ tasks[t].pc = "resume"
        /\ tasks' = [tasks EXCEPT ![t].pc = "done", ![t].result = Ok(Null)]
    /\ client' = [client EXCEPT !.is_client_closed = TRUE]
    /\ UNCHANGED <<call, args, outcome>>

\* execute_request(endpoint, http_request), or perform_request(endpoint,
\* method, http_request) of the transport class, up to the await of post().
\* A method other than POST returns None at once; post() on a closed
\* underlying client raises RuntimeError.
ExecuteCall ==
    /\ client # NoObject
    /\ \E t \in 1..MaxTasks, endpoint \in Endpoints,
          method \in (IF client.variant = "transport" THEN Methods ELSE {"POST"}) :
        /\ tasks[t].pc = "idle"
        /\ LET url == client.url.v \o <<"/">> \o endpoint
               started == [IdleTask EXCEPT !.op = "execute",
                                           !.endpoint = endpoint,
                                           !.method = method]
               posting == [started EXCEPT
                              !.posted = <<[url |-> url, data |-> "http_request",
                                            auth |-> client.auth]>>]
           IN  tasks' = [tasks EXCEPT ![t] =
                   IF method # "POST"
                   THEN [started EXCEPT !.pc = "done", !.result = Ok(Null)]
                   ELSE IF client.client.is_closed
                   THEN [posting EXCEPT
                            !.pc = "done",
                            !.result = Raise("RuntimeError",
                                             "the client has been closed")]
                   ELSE [posting EXCEPT !.pc = "post"]]
    /\ UNCHANGED <<call, args, outcome, client>>

\* The response arrives and the coroutine runs to its end.
PostResponse ==
    /\ \E t \in 1..MaxTasks, status_code \in StatusCodes, body \in ResponseBodies :
        /\ tasks[t].op = "execute"
        /\ tasks[t].pc = "post"
        /\ LET response == [status_code |-> status_code, body |-> body]
           IN  tasks' = [tasks EXCEPT
                   ![t].pc = "done",
                   ![t].response = response,
                   ![t].result = IF client.variant = "transport"
                                 THEN perform_request_result(response)
                                 ELSE execute_request_result(response)]
    /\ UNCHANGED <<call, args, outcome, client>>

\* No response arrives: post() raises the transport's error.
PostFails ==
    /\ \E t \in 1..MaxTasks :
        /\ tasks[t].op = "execute"
        /\ tasks[t].pc = "post"
        /\ tasks' = [tasks EXCEPT
               ![t].pc = "done",
               ![t].result = Raise("TransportError", "post failed")]
    /\ UNCHANGED <<call, args, outcome, client>>

NextClient ==
    \/ Construct
    \/ CloseCall
    \/ AcloseFinish
    \/ CloseReturn
    \/ ExecuteCall
    \/ PostResponse
    \/ PostFails

SpecClient == Init /\ [][NextClient]_vars

(***************************************************************************)
(* Client properties.                                                      *)
(***************************************************************************)
ServerErrors == {"TectonServerException", "UnauthorizedError"}

\* C17: every finished execute_request / perform_request call has posted
\* exactly once, to url/endpoint; with a response of status 200 it returned
\* the parsed body, and with any other status it raised the server error
\* (or a subclass) and returned nothing.
C17_OnePostStatusDecides ==
    \A t \in 1..MaxTasks :
        (tasks[t].op = "execute" /\ tasks[t].pc = "done") =>
            /\ Len(tasks[t].posted) = 1
            /\ tasks[t].posted[1].url =
                   client.url.v \o <<"/">> \o tasks[t].endpoint
            /\ tasks[t].response # NoObject =>
                   /\ (/\ tasks[t].response.status_code = 200
                       /\ tasks[t].response.body.tag = "dict")
                          => tasks[t].result = Ok(tasks[t].response.body)
                   /\ tasks[t].response.status_code # 200 =>
                          /\ ~tasks[t].result.ok
                          /\ tasks[t].result.exc \in ServerErrors

CloseCompleted ==
    \E t \in 1..MaxTasks : tasks[t].op = "close" /\ tasks[t].pc = "done"

\* C18: over every interleaving of close() and execute_request() on one
\* client, is_closed is False from construction until a close() completes,
\* turns True only in a step before which the underlying aclose() has
\* finished, never turns back to False, and no step of execute_request
\* changes it.
C18_IsClosedLifecycle ==
    /\ []((client # NoObject /\ ~CloseCompleted) => ~is_closed(client))
    /\ [][(client # NoObject) =>
             /\ is_closed(client) => is_closed(client)'
             /\ (~is_closed(client) /\ is_closed(client)')
                    => client.client.is_closed
             /\ (\E t \in 1..MaxTasks :
                     tasks'[t] # tasks[t] /\ tasks'[t].op = "execute")
                    => is_closed(client)' = is_closed(client)]_vars

\* A close() has completed beside an execute_request that got its response,
\* and the client is closed.
C18_Witness ==
    /\ client # NoObject
    /\ is_closed(client)
    /\ \E t \in 1..MaxTasks :
           /\ tasks[t].op = "execute"
           /\ tasks[t].pc = "done"
           /\ tasks[t].response # NoObject
    /\ CloseCompleted

====
